---- MODULE Spec2Model ----
(***************************************************************************)
(* IFT-1004 DuProprio: accounts, session, and property listing over three  *)
(* flat files (utilisateurs.json, proprietes.json, session.txt).           *)
(*                                                                         *)
(* A Python str is a sequence of one-character strings; None is the empty  *)
(* tuple and a value v that is "not None" is the one-element tuple <<v>>.  *)
(* A file is a record [existe, contenu]; a missing file has existe = FALSE.*)
(* main is the state of main() (its loop and the choice typed last), and   *)
(* processus the local state of the processes that run                     *)
(* sauvegarder_propriete side by side.                                     *)
(***************************************************************************)
EXTENDS Integers, Sequences, FiniteSets, TLC

VARIABLES fichier_utilisateurs, fichier_proprietes, fichier_session,
          appel, retour, sortie, main, processus

vars == <<fichier_utilisateurs, fichier_proprietes, fichier_session,
          appel, retour, sortie, main, processus>>

fichiers == <<fichier_utilisateurs, fichier_proprietes, fichier_session>>

----------------------------------------------------------------------------
(* Bounds of the model *)

MaxLen == 2
MaxMdp == 1
MaxUtilisateurs == 2
MaxProprietes == 2
MaxPrix == 2
MaxChambres == 1
NbProcessus == 2
MaxHachage == 120

----------------------------------------------------------------------------
(* Values *)

None == <<>>
Some(v) == <<v>>

Espaces == {" "}

Rep(c, k) == [i \in 1..k |-> c]

(* Texts typed at a prompt: "", "a", "aa", ... up to n letters, and the *)
(* texts "  " and " a " that carry surrounding blanks.                  *)
Entrees(n) ==
  {Rep("a", k) : k \in 0..n}
    \cup {<<" ">> \o Rep("a", k) \o <<" ">> : k \in 0..1}

EntreesTexte == Entrees(MaxLen)
EntreesMdp == Entrees(MaxMdp)

Chiffre(d) ==
  CASE d = 0 -> "0" [] d = 1 -> "1" [] d = 2 -> "2" [] d = 3 -> "3"
    [] d = 4 -> "4" [] d = 5 -> "5" [] d = 6 -> "6" [] d = 7 -> "7"
    [] d = 8 -> "8" [] OTHER -> "9"

Chiffres == {Chiffre(d) : d \in 0..9}

ValeurChiffre(c) == CHOOSE d \in 0..9 : Chiffre(d) = c

EntreesNombre(max) ==
  {<<>>, <<"x">>} \cup {<<Chiffre(d)>> : d \in 0..max}

FichierAbsent(defaut) == [existe |-> FALSE, contenu |-> defaut]
FichierAvec(c) == [existe |-> TRUE, contenu |-> c]

DictVide == <<>>

----------------------------------------------------------------------------
(* Truth value of a str or None, and of a number *)
vrai_texte(v) == v # None /\ v # Some(<<>>)
vrai_nombre(n) == n # 0

(* str.strip(): drop leading and trailing whitespace *)

RECURSIVE lstrip(_)
lstrip(s) ==
  IF s = <<>> THEN <<>>
  ELSE IF Head(s) \in Espaces THEN lstrip(Tail(s)) ELSE s

RECURSIVE rstrip(_)
rstrip(s) ==
  IF s = <<>> THEN <<>>
  ELSE IF s[Len(s)] \in Espaces THEN rstrip(SubSeq(s, 1, Len(s) - 1)) ELSE s

strip(s) == rstrip(lstrip(s))

(* f.read() on a file object positioned at pos: the rest of the content *)
read(contenu, pos) == SubSeq(contenu, pos + 1, Len(contenu))

----------------------------------------------------------------------------
(* utilitaires.py *)

(* str.encode(): the UTF-8 bytes of the text; the characters used here are *)
(* ASCII, one byte each.                                                  *)
ord(c) ==
  CASE c = " " -> 32
    [] c = "0" -> 48 [] c = "1" -> 49 [] c = "2" -> 50 [] c = "3" -> 51
    [] c = "4" -> 52 [] c = "5" -> 53 [] c = "6" -> 54 [] c = "7" -> 55
    [] c = "8" -> 56 [] c = "9" -> 57
    [] c = "a" -> 97 [] c = "b" -> 98 [] c = "c" -> 99 [] c = "e" -> 101
    [] c = "r" -> 114 [] c = "s" -> 115 [] c = "t" -> 116 [] c = "x" -> 120

encode(texte) == [i \in DOMAIN texte |-> ord(texte[i])]

(* hashlib.sha256: SHA-256 of FIPS 180-4.  A 32-bit word is the pair of   *)
(* its high and low 16-bit halves.                                        *)
Moitie == 0..65535
Mot == Moitie \X Moitie
Octet == 0..255

bit_xor[a \in Moitie, b \in Moitie] ==
  IF a = 0 THEN b
  ELSE IF b = 0 THEN a
  ELSE ((a + b) % 2) + 2 * bit_xor[a \div 2, b \div 2]

bit_and[a \in Moitie, b \in Moitie] ==
  IF a = 0 \/ b = 0 THEN 0
  ELSE ((a % 2) * (b % 2)) + 2 * bit_and[a \div 2, b \div 2]

Xor[x \in Mot, y \in Mot] == <<bit_xor[x[1], y[1]], bit_xor[x[2], y[2]]>>

And[x \in Mot, y \in Mot] == <<bit_and[x[1], y[1]], bit_and[x[2], y[2]]>>

Not(x) == <<65535 - x[1], 65535 - x[2]>>

Add[x \in Mot, y \in Mot] ==
  <<(x[1] + y[1] + ((x[2] + y[2]) \div 65536)) % 65536,
    (x[2] + y[2]) % 65536>>

Rotr(x, n) ==
  LET w == IF n >= 16 THEN <<x[2], x[1]>> ELSE x
      k == n % 16
  IN  IF k = 0 THEN w
      ELSE <<(w[1] \div 2^k) + (w[2] % 2^k) * 2^(16 - k),
             (w[2] \div 2^k) + (w[1] % 2^k) * 2^(16 - k)>>

Shr(x, n) ==
  <<x[1] \div 2^n, (x[2] \div 2^n) + (x[1] % 2^n) * 2^(16 - n)>>

K256 ==
  <<<<17034, 12184>>, <<28983, 17553>>, <<46528, 64463>>, <<59829, 56229>>,
    <<14678, 49755>>, <<23025, 4593>>, <<37439, 33444>>, <<43804, 24277>>,
    <<55303, 43672>>, <<4739, 23297>>, <<9265, 34238>>, <<21772, 32195>>,
    <<29374, 23924>>, <<32990, 45566>>, <<39900, 1703>>, <<49563, 61812>>,
    <<58523, 27073>>, <<61374, 18310>>, <<4033, 40390>>, <<9228, 41420>>,
    <<11753, 11375>>, <<19060, 33962>>, <<23728, 43484>>, <<30457, 35034>>,
    <<38974, 20818>>, <<43057, 50797>>, <<45059, 10184>>, <<48985, 32711>>,
    <<50912, 3059>>, <<54695, 37191>>, <<1738, 25425>>, <<5161, 10599>>,
    <<10167, 2693>>, <<11803, 8504>>, <<19756, 28156>>, <<21304, 3347>>,
    <<25866, 29524>>, <<30314, 2747>>, <<33218, 51502>>, <<37490, 11397>>,
    <<41663, 59553>>, <<43034, 26187>>, <<49739, 35696>>, <<51052, 20899>>,
    <<53650, 59417>>, <<54937, 1572>>, <<62478, 13701>>, <<4202, 41072>>,
    <<6564, 49430>>, <<7735, 27656>>, <<10056, 30540>>, <<13488, 48309>>,
    <<14620, 3251>>, <<20184, 43594>>, <<23452, 51791>>, <<26670, 28659>>,
    <<29839, 33518>>, <<30885, 25455>>, <<33992, 30740>>, <<36039, 520>>,
    <<37054, 65530>>, <<42064, 27883>>, <<48889, 41975>>, <<50801, 30962>>>>

H256 ==
  <<<<27145, 58983>>, <<47975, 44677>>, <<15470, 62322>>, <<42319, 62778>>,
    <<20750, 21119>>, <<39685, 26764>>, <<8067, 55723>>, <<23520, 52505>>>>

(* The message, the byte 0x80, zero bytes up to 56 modulo 64, and the *)
(* bit length of the message on 8 bytes.                              *)
padding(octets) ==
  LET bits == 8 * Len(octets)
  IN  octets \o <<128>>
        \o [i \in 1..((119 - (Len(octets) % 64)) % 64) |-> 0]
        \o <<0, 0, 0, 0, bits \div 16777216, (bits \div 65536) % 256,
              (bits \div 256) % 256, bits % 256>>

schedule[W \in Seq(Mot)] ==
  IF Len(W) = 64 THEN W
  ELSE LET t == Len(W) + 1
       IN  schedule[Append(W,
             Add[Add[W[t - 16],
                     Xor[Xor[Rotr(W[t - 15], 7), Rotr(W[t - 15], 18)],
                         Shr(W[t - 15], 3)]],
                 Add[W[t - 7],
                     Xor[Xor[Rotr(W[t - 2], 17), Rotr(W[t - 2], 19)],
                         Shr(W[t - 2], 10)]]])]

(* T1 and T2 of a round on the working variables v = <<a, ..., h>> *)
T1(v, W, t) ==
  Add[Add[Add[v[8], Xor[Xor[Rotr(v[5], 6), Rotr(v[5], 11)], Rotr(v[5], 25)]],
          Add[Xor[And[v[5], v[6]], And[Not(v[5]), v[7]]], K256[t]]],
      W[t]]

T2(v) ==
  Add[Xor[Xor[Rotr(v[1], 2), Rotr(v[1], 13)], Rotr(v[1], 22)],
      Xor[Xor[And[v[1], v[2]], And[v[1], v[3]]], And[v[2], v[3]]]]

round[v \in Seq(Mot), t1 \in Mot] ==
  <<Add[t1, T2(v)], v[1], v[2], v[3], Add[v[4], t1], v[5], v[6], v[7]>>

rounds[v \in Seq(Mot), W \in Seq(Mot), t \in 1..65] ==
  IF t > 64 THEN v ELSE rounds[round[v, T1(v, W, t)], W, t + 1]

somme[H \in Seq(Mot), v \in Seq(Mot)] ==
  <<Add[H[1], v[1]], Add[H[2], v[2]], Add[H[3], v[3]], Add[H[4], v[4]],
    Add[H[5], v[5]], Add[H[6], v[6]], Add[H[7], v[7]], Add[H[8], v[8]]>>

mots(octets) ==
  [t \in 1..16 |-> <<256 * octets[4 * t - 3] + octets[4 * t - 2],
                      256 * octets[4 * t - 1] + octets[4 * t]>>]

blocks[H \in Seq(Mot), octets \in Seq(Octet)] ==
  IF octets = <<>> THEN H
  ELSE blocks[somme[H, rounds[H, schedule[mots(octets)], 1]],
              SubSeq(octets, 65, Len(octets))]

(* The eight words of the hash value of the message *)
sha256[octets \in Seq(Octet)] == blocks[H256, padding(octets)]

(* digest(): the 32 bytes of the eight words *)
digest[H \in Seq(Mot)] ==
  IF H = <<>> THEN <<>>
  ELSE <<H[1][1] \div 256, H[1][1] % 256, H[1][2] \div 256, H[1][2] % 256>>
         \o digest[Tail(H)]

hex(d) ==
  CASE d = 0 -> "0" [] d = 1 -> "1" [] d = 2 -> "2" [] d = 3 -> "3"
    [] d = 4 -> "4" [] d = 5 -> "5" [] d = 6 -> "6" [] d = 7 -> "7"
    [] d = 8 -> "8" [] d = 9 -> "9" [] d = 10 -> "a" [] d = 11 -> "b"
    [] d = 12 -> "c" [] d = 13 -> "d" [] d = 14 -> "e" [] d = 15 -> "f"

(* Variant of hex_octet: a byte below 16 is written without its zero *)
hex_octet_sans_zero(octet) ==
  IF octet < 16 THEN <<hex(octet)>>
  ELSE <<hex(octet \div 16), hex(octet % 16)>>

hex_octet(octet) == <<hex(octet \div 16), hex(octet % 16)>>

(* hexdigest(): two hexadecimal digits for each byte of the digest *)
hexdigest[octets \in Seq(Octet)] ==
  IF octets = <<>> THEN <<>>
  ELSE hex_octet(octets[1]) \o hexdigest[Tail(octets)]

(* The passwords hashed by tests_hacher_mot_de_passe *)
LongueurTresLong == 1000

Echantillons ==
  {<<>>, <<"s", "e", "c", "r", "e", "t">>,
   <<"s", "e", "c", "r", "e", "t", "2">>, Rep("a", LongueurTresLong)}

(* hashlib keeps nothing from one call to the next: the digests of the  *)
(* passwords that can be typed at a prompt and of the tested passwords  *)
(* are computed once, the digest of any other text at the call.         *)
MotsDePasseConnus == {strip(e) : e \in EntreesMdp} \cup Echantillons

condenses_connus ==
  {<<m, hexdigest[digest[sha256[encode(m)]]]>> : m \in MotsDePasseConnus}

hacher_mot_de_passe(mot_de_passe) ==
  IF mot_de_passe \in MotsDePasseConnus
  THEN (CHOOSE c \in condenses_connus : c[1] = mot_de_passe)[2]
  ELSE hexdigest[digest[sha256[encode(mot_de_passe)]]]

----------------------------------------------------------------------------
(* gestionnaire_donnees.py *)

(* A JSON object in a file is the sequence of its members <<key, value>>. *)
(* json.dump writes one member per key of the dict; json.load reads the   *)
(* members into a dict, a key met again taking the later value.           *)
RECURSIVE json_dump(_)
json_dump(dict) ==
  IF DOMAIN dict = {} THEN <<>>
  ELSE LET cle == CHOOSE k \in DOMAIN dict : TRUE
       IN  <<<<cle, dict[cle]>>>>
             \o json_dump([k \in (DOMAIN dict) \ {cle} |-> dict[k]])

json_load(membres) ==
  [cle \in {membres[i][1] : i \in DOMAIN membres} |->
     LET dernier == CHOOSE i \in DOMAIN membres :
                      /\ membres[i][1] = cle
                      /\ \A j \in DOMAIN membres :
                           membres[j][1] = cle => j <= i
     IN  membres[dernier][2]]

(* open(chemin, "w") creates the file or empties it; open(chemin, "a")   *)
(* creates it or keeps what it holds; write puts the text at the end.    *)
open_w(fichier) == FichierAvec(<<>>)
open_a(fichier) == IF fichier.existe THEN fichier ELSE FichierAvec(<<>>)
write(fichier, texte) == FichierAvec(fichier.contenu \o texte)

charger_utilisateurs(f_utilisateurs) ==
  IF f_utilisateurs.existe THEN json_load(f_utilisateurs.contenu)
  ELSE DictVide

(* Variant of sauvegarder_utilisateurs: the file is opened to append *)
sauvegarder_utilisateurs_mode_a(f_utilisateurs, utilisateurs) ==
  write(open_a(f_utilisateurs), json_dump(utilisateurs))

sauvegarder_utilisateurs(f_utilisateurs, utilisateurs) ==
  write(open_w(f_utilisateurs), json_dump(utilisateurs))

charger_proprietes(f_proprietes) ==
  IF f_proprietes.existe THEN f_proprietes.contenu ELSE <<>>

(* Lines 62-66 of sauvegarder_propriete: the list read from the file *)
sauvegarder_propriete_lire(f_proprietes) ==
  IF f_proprietes.existe THEN f_proprietes.contenu ELSE <<>>

(* Variant of sauvegarder_propriete_ecrire: the new record alone is saved *)
sauvegarder_propriete_ecrire_seule(f_proprietes, proprietes, nouvelle_propriete) ==
  write(open_w(f_proprietes), <<nouvelle_propriete>>)

(* Lines 68-70 of sauvegarder_propriete: the list read, with the new    *)
(* record appended, is written over the file.                           *)
sauvegarder_propriete_ecrire(f_proprietes, proprietes, nouvelle_propriete) ==
  write(open_w(f_proprietes), Append(proprietes, nouvelle_propriete))

(* Variant of sauvegarder_propriete: the list is not read first *)
sauvegarder_propriete_sans_lire(f_proprietes, nouvelle_propriete) ==
  sauvegarder_propriete_ecrire(f_proprietes, <<>>, nouvelle_propriete)

sauvegarder_propriete(f_proprietes, nouvelle_propriete) ==
  sauvegarder_propriete_ecrire(f_proprietes,
                               sauvegarder_propriete_lire(f_proprietes),
                               nouvelle_propriete)

(* dict.get(cle): the value, or None *)
get(dict, cle) == IF cle \in DOMAIN dict THEN Some(dict[cle]) ELSE None

(* Variant of setitem: the mapping is rebuilt with the new key alone *)
setitem_seul(dict, cle, valeur) == [k \in {cle} |-> valeur]

(* dict[cle] = valeur *)
setitem(dict, cle, valeur) ==
  [k \in (DOMAIN dict) \cup {cle} |-> IF k = cle THEN valeur ELSE dict[k]]

----------------------------------------------------------------------------
(* gestionnaire_utilisateurs.py *)

(* The file is read twice on the same file object: the first read() returns *)
(* the whole content and leaves the position at the end, the second read()  *)
(* returns what follows that position.                                      *)
recuperer_utilisateur_courant(f_session) ==
  IF ~f_session.existe THEN None
  ELSE LET premier == read(f_session.contenu, 0)
           position == Len(premier)
       IN  IF strip(premier) = <<>> THEN None
           ELSE Some(strip(read(f_session.contenu, position)))

definir_utilisateur_courant(nom_utilisateur) == FichierAvec(nom_utilisateur)

(* Variant of vider_session: writes the text of None *)
vider_session_none == FichierAvec(<<"N", "o", "n", "e">>)

vider_session == FichierAvec(<<>>)

(* Variant of utilisateur_est_connecte: tests the truth value of the user *)
utilisateur_est_connecte_par_verite(f_session) ==
  vrai_texte(recuperer_utilisateur_courant(f_session))

utilisateur_est_connecte(f_session) ==
  recuperer_utilisateur_courant(f_session) # None

MsgDejaPris == "Ce nom d'utilisateur est deja pris."
MsgCompteCree == "Compte cree avec succes."
MsgConnexionReussie == "Connexion reussie."
MsgIncorrect == "Nom d'utilisateur ou mot de passe incorrect."
MsgDeconnexion == "Deconnexion reussie."
MsgDoitEtreConnecte == "Vous devez etre connecte pour ajouter une propriete."
MsgProprieteAjoutee == "Propriete ajoutee avec succes."
MsgAucunePropriete == "Aucune propriete disponible."

(* Variant of creer_compte: no test of the name being taken *)
creer_compte_sans_verification(f_utilisateurs, e_nom, e_mdp) ==
  [utilisateurs |->
     sauvegarder_utilisateurs(f_utilisateurs,
       [k \in (DOMAIN charger_utilisateurs(f_utilisateurs)) \cup {strip(e_nom)}
          |-> IF k = strip(e_nom) THEN hacher_mot_de_passe(strip(e_mdp))
              ELSE charger_utilisateurs(f_utilisateurs)[k]]),
   message |-> MsgCompteCree, lus |-> 2]

(* The result of creer_compte: the users file, what was printed, and the *)
(* number of input() calls made.                                         *)
creer_compte(f_utilisateurs, e_nom, e_mdp) ==
  LET utilisateurs == charger_utilisateurs(f_utilisateurs)
      nom_utilisateur == strip(e_nom)
      mot_de_passe == strip(e_mdp)
  IN  IF nom_utilisateur \in DOMAIN utilisateurs
      THEN [utilisateurs |-> f_utilisateurs, message |-> MsgDejaPris, lus |-> 1]
      ELSE [utilisateurs |->
              sauvegarder_utilisateurs(f_utilisateurs,
                setitem(utilisateurs, nom_utilisateur,
                        hacher_mot_de_passe(mot_de_passe))),
            message |-> MsgCompteCree, lus |-> 2]

(* Variant of se_connecter: the password is not compared *)
se_connecter_sans_mot_de_passe(f_utilisateurs, f_session, e_nom, e_mdp) ==
  IF strip(e_nom) \in DOMAIN charger_utilisateurs(f_utilisateurs)
  THEN [session |-> definir_utilisateur_courant(strip(e_nom)),
        message |-> MsgConnexionReussie]
  ELSE [session |-> f_session, message |-> MsgIncorrect]

(* Variant of se_connecter: a refused login empties the session *)
se_connecter_efface_session(f_utilisateurs, f_session, e_nom, e_mdp) ==
  IF get(charger_utilisateurs(f_utilisateurs), strip(e_nom))
       = Some(hacher_mot_de_passe(strip(e_mdp)))
  THEN [session |-> definir_utilisateur_courant(strip(e_nom)),
        message |-> MsgConnexionReussie]
  ELSE [session |-> vider_session, message |-> MsgIncorrect]

(* Variant of se_connecter: the session is written before the test *)
se_connecter_session_avant_test(f_utilisateurs, f_session, e_nom, e_mdp) ==
  IF get(charger_utilisateurs(f_utilisateurs), strip(e_nom))
       = Some(hacher_mot_de_passe(strip(e_mdp)))
  THEN [session |-> definir_utilisateur_courant(strip(e_nom)),
        message |-> MsgConnexionReussie]
  ELSE [session |-> definir_utilisateur_courant(strip(e_nom)),
        message |-> MsgIncorrect]

(* Variant of se_connecter: an unknown username gets a message of its own *)
se_connecter_nom_inconnu(f_utilisateurs, f_session, e_nom, e_mdp) ==
  LET utilisateurs == charger_utilisateurs(f_utilisateurs)
      nom_utilisateur == strip(e_nom)
      mot_de_passe_hache == hacher_mot_de_passe(strip(e_mdp))
  IN  IF nom_utilisateur \notin DOMAIN utilisateurs
      THEN [session |-> f_session, message |-> "Nom d'utilisateur inconnu."]
      ELSE IF utilisateurs[nom_utilisateur] = mot_de_passe_hache
      THEN [session |-> definir_utilisateur_courant(nom_utilisateur),
            message |-> MsgConnexionReussie]
      ELSE [session |-> f_session, message |-> MsgIncorrect]

se_connecter(f_utilisateurs, f_session, e_nom, e_mdp) ==
  LET utilisateurs == charger_utilisateurs(f_utilisateurs)
      nom_utilisateur == strip(e_nom)
      mot_de_passe == strip(e_mdp)
      mot_de_passe_hache == hacher_mot_de_passe(mot_de_passe)
  IN  IF get(utilisateurs, nom_utilisateur) = Some(mot_de_passe_hache)
      THEN [session |-> definir_utilisateur_courant(nom_utilisateur),
            message |-> MsgConnexionReussie]
      ELSE [session |-> f_session, message |-> MsgIncorrect]

se_deconnecter == [session |-> vider_session, message |-> MsgDeconnexion]

----------------------------------------------------------------------------
(* Conversions of gestionnaire_proprietes.py *)

RECURSIVE valeur_decimale(_)
valeur_decimale(s) ==
  IF s = <<>> THEN 0
  ELSE 10 * valeur_decimale(SubSeq(s, 1, Len(s) - 1)) + ValeurChiffre(s[Len(s)])

(* int(s) for the texts of the model (digits, letters, blanks): surrounding *)
(* whitespace is ignored, a non-empty run of digits is its decimal value,   *)
(* anything else raises ValueError (None here).                             *)
int(s) ==
  LET t == strip(s)
  IN  IF t # <<>> /\ \A i \in 1..Len(t) : t[i] \in Chiffres
      THEN Some(valeur_decimale(t)) ELSE None

(* float(s) on the same texts: the same value as a float *)
float(s) ==
  LET t == strip(s)
  IN  IF t # <<>> /\ \A i \in 1..Len(t) : t[i] \in Chiffres
      THEN Some(valeur_decimale(t)) ELSE None

(* A numeric criterion after lines 59-64: the empty str it was entered as  *)
(* (<<>>), or <<n>> once converted.                                        *)
(* Variant of vrai_critere: a criterion counts as soon as it was entered *)
vrai_critere_entre(c) == c # <<>>

vrai_critere(c) == c # <<>> /\ vrai_nombre(c[1])

RECURSIVE chiffres_de(_)
chiffres_de(n) ==
  IF n < 10 THEN <<Chiffre(n)>>
  ELSE chiffres_de(n \div 10) \o <<Chiffre(n % 10)>>

RECURSIVE milliers(_)
milliers(c) ==
  IF Len(c) <= 3 THEN c
  ELSE milliers(SubSeq(c, 1, Len(c) - 3)) \o <<",">>
         \o SubSeq(c, Len(c) - 2, Len(c))

(* "{:,.2f} $".format(montant) for a whole, non-negative montant *)
formater_argent(montant_en_dollars) ==
  milliers(chiffres_de(montant_en_dollars)) \o <<".", "0", "0", " ", "$">>

----------------------------------------------------------------------------
(* gestionnaire_proprietes.py *)

(* Variant of lister_proprietes: the rows are listed last stored first *)
lister_proprietes_inverse(f_proprietes) ==
  LET proprietes == charger_proprietes(f_proprietes)
      n == Len(proprietes)
  IN  IF proprietes = <<>>
      THEN [message |-> MsgAucunePropriete, lignes |-> <<>>]
      ELSE [message |-> "",
            lignes |-> [i \in 1..n |->
                         <<proprietes[n + 1 - i].ville,
                           proprietes[n + 1 - i].type,
                           proprietes[n + 1 - i].chambres,
                           proprietes[n + 1 - i].salles_de_bains,
                           formater_argent(proprietes[n + 1 - i].prix)>>]]

lister_proprietes(f_proprietes) ==
  LET proprietes == charger_proprietes(f_proprietes)
  IN  IF proprietes = <<>>
      THEN [message |-> MsgAucunePropriete, lignes |-> <<>>]
      ELSE [message |-> "",
            lignes |-> [i \in 1..Len(proprietes) |->
                         <<proprietes[i].ville, proprietes[i].type,
                           proprietes[i].chambres,
                           proprietes[i].salles_de_bains,
                           formater_argent(proprietes[i].prix)>>]]

(* Variant of filtrer_proprietes: the price bounds are exclusive *)
filtrer_proprietes_prix_strict(f_proprietes, e_ville, e_prix_min, e_prix_max, e_chambres) ==
  LET proprietes == charger_proprietes(f_proprietes)
      critere_ville == strip(e_ville)
      critere_prix_min ==
        IF strip(e_prix_min) # <<>> THEN float(strip(e_prix_min)) ELSE <<>>
      critere_prix_max ==
        IF strip(e_prix_max) # <<>> THEN float(strip(e_prix_max)) ELSE <<>>
      critere_chambres ==
        IF strip(e_chambres) # <<>> THEN int(strip(e_chambres)) ELSE <<>>
      leve ==
        \/ strip(e_prix_min) # <<>> /\ critere_prix_min = None
        \/ strip(e_prix_max) # <<>> /\ critere_prix_max = None
        \/ strip(e_chambres) # <<>> /\ critere_chambres = None
      gardee(propriete) ==
        ~ \/ critere_ville # <<>> /\ propriete.ville # critere_ville
          \/ vrai_critere(critere_prix_min)
               /\ propriete.prix <= critere_prix_min[1]
          \/ vrai_critere(critere_prix_max)
               /\ propriete.prix >= critere_prix_max[1]
          \/ vrai_critere(critere_chambres)
               /\ propriete.chambres < critere_chambres[1]
  IN  IF leve
      THEN [exception |-> "ValueError", lignes |-> <<>>]
      ELSE [exception |-> "", lignes |-> SelectSeq(proprietes, gardee)]

(* The result of filtrer_proprietes: the lines printed, or the exception *)
(* raised by a conversion.                                               *)
filtrer_proprietes(f_proprietes, e_ville, e_prix_min, e_prix_max, e_chambres) ==
  LET proprietes == charger_proprietes(f_proprietes)
      critere_ville == strip(e_ville)
      texte_prix_min == strip(e_prix_min)
      texte_prix_max == strip(e_prix_max)
      texte_chambres == strip(e_chambres)
      critere_prix_min ==
        IF texte_prix_min # <<>> THEN float(texte_prix_min) ELSE <<>>
      critere_prix_max ==
        IF texte_prix_max # <<>> THEN float(texte_prix_max) ELSE <<>>
      critere_chambres ==
        IF texte_chambres # <<>> THEN int(texte_chambres) ELSE <<>>
      leve ==
        \/ texte_prix_min # <<>> /\ critere_prix_min = None
        \/ texte_prix_max # <<>> /\ critere_prix_max = None
        \/ texte_chambres # <<>> /\ critere_chambres = None
      ecartee(propriete) ==
        \/ critere_ville # <<>> /\ propriete.ville # critere_ville
        \/ vrai_critere(critere_prix_min)
             /\ propriete.prix < critere_prix_min[1]
        \/ vrai_critere(critere_prix_max)
             /\ propriete.prix > critere_prix_max[1]
        \/ vrai_critere(critere_chambres)
             /\ propriete.chambres < critere_chambres[1]
      gardee(propriete) == ~ecartee(propriete)
  IN  IF leve
      THEN [exception |-> "ValueError", lignes |-> <<>>]
      ELSE [exception |-> "", lignes |-> SelectSeq(proprietes, gardee)]

(* Variant of the test of lines 83-86: nobody is refused *)
ajouter_propriete_jamais_refuse(f_session) == FALSE

(* Lines 83-86 of ajouter_propriete: the call is refused when the current *)
(* user is None or the empty str.                                         *)
ajouter_propriete_refuse(f_session) ==
  LET utilisateur == recuperer_utilisateur_courant(f_session)
  IN  ~vrai_texte(utilisateur)

(* Lines 88-102 of ajouter_propriete: the properties file, what was      *)
(* printed, the exception raised by a conversion, and the number of      *)
(* input() calls made.                                                   *)
ajouter_propriete(f_proprietes, e_prix, e_ville, e_type, e_chambres, e_sdb) ==
  LET prix == float(e_prix)
      ville == strip(e_ville)
      type_propriete == strip(e_type)
      chambres == int(e_chambres)
      salles_de_bain == int(e_sdb)
      leve(n) ==
        [proprietes |-> f_proprietes, message |-> "",
         exception |-> "ValueError", lus |-> n]
  IN  IF prix = None THEN leve(1)
      ELSE IF chambres = None THEN leve(4)
      ELSE IF salles_de_bain = None THEN leve(5)
      ELSE [proprietes |->
              sauvegarder_propriete(f_proprietes,
                [prix |-> prix[1], ville |-> ville, type |-> type_propriete,
                 chambres |-> chambres[1],
                 salles_de_bains |-> salles_de_bain[1]]),
            message |-> MsgProprieteAjoutee, exception |-> "", lus |-> 5]

----------------------------------------------------------------------------
(* State machine: each action is one call of a function of the program.   *)
(* appel is the call made last with the texts typed at its prompts,       *)
(* retour what it returned or raised, sortie what it printed.             *)

Appel(op, entrees) == [op |-> op, entrees |-> entrees]
Retour(valeur) == [valeur |-> valeur, exception |-> ""]
Leve(exception) == [valeur |-> None, exception |-> exception]
Sortie(message, lignes) == [message |-> message, lignes |-> lignes]

EntreesPrix == EntreesNombre(MaxPrix)
EntreesChambres == EntreesNombre(MaxChambres)
EntreesType == {<<"a">>}
EntreesSdb == {<<"1">>}

(* main() is not running: the functions are called directly *)
MainHors == [etat |-> "hors", choix |-> <<>>]

AucunProcessus == <<>>

HorsMain == UNCHANGED <<main, processus>>

InitCommunSansProcessus ==
  /\ main = MainHors
  /\ fichier_utilisateurs = FichierAbsent(DictVide)
  /\ fichier_session = FichierAbsent(<<>>)
  /\ appel = Appel("", <<>>)
  /\ retour = Retour(None)
  /\ sortie = Sortie("", <<>>)

InitCommun ==
  /\ InitCommunSansProcessus
  /\ processus = AucunProcessus

Init ==
  /\ InitCommun
  /\ fichier_proprietes \in {FichierAbsent(<<>>), FichierAvec(<<>>)}

ExecCreerCompte ==
  \E e_nom \in EntreesTexte, e_mdp \in EntreesMdp :
    LET r == creer_compte(fichier_utilisateurs, e_nom, e_mdp)
    IN  /\ Cardinality(DOMAIN charger_utilisateurs(r.utilisateurs))
             <= MaxUtilisateurs
        /\ fichier_utilisateurs' = r.utilisateurs
        /\ appel' = Appel("creer_compte", SubSeq(<<e_nom, e_mdp>>, 1, r.lus))
        /\ retour' = Retour(None)
        /\ sortie' = Sortie(r.message, <<>>)
        /\ UNCHANGED <<fichier_proprietes, fichier_session>>

ExecSeConnecter ==
  \E e_nom \in EntreesTexte, e_mdp \in EntreesMdp :
    LET r == se_connecter(fichier_utilisateurs, fichier_session, e_nom, e_mdp)
    IN  /\ fichier_session' = r.session
        /\ appel' = Appel("se_connecter", <<e_nom, e_mdp>>)
        /\ retour' = Retour(None)
        /\ sortie' = Sortie(r.message, <<>>)
        /\ UNCHANGED <<fichier_utilisateurs, fichier_proprietes>>

ExecSeDeconnecter ==
  /\ fichier_session' = se_deconnecter.session
  /\ appel' = Appel("se_deconnecter", <<>>)
  /\ retour' = Retour(None)
  /\ sortie' = Sortie(se_deconnecter.message, <<>>)
  /\ UNCHANGED <<fichier_utilisateurs, fichier_proprietes>>

ExecRecupererUtilisateurCourant ==
  /\ appel' = Appel("recuperer_utilisateur_courant", <<>>)
  /\ retour' = Retour(recuperer_utilisateur_courant(fichier_session))
  /\ sortie' = Sortie("", <<>>)
  /\ UNCHANGED fichiers

ExecUtilisateurEstConnecte ==
  /\ appel' = Appel("utilisateur_est_connecte", <<>>)
  /\ retour' = Retour(Some(utilisateur_est_connecte(fichier_session)))
  /\ sortie' = Sortie("", <<>>)
  /\ UNCHANGED fichiers

ExecAjouterPropriete ==
  IF ajouter_propriete_refuse(fichier_session)
  THEN /\ appel' = Appel("ajouter_propriete", <<>>)
       /\ retour' = Retour(None)
       /\ sortie' = Sortie(MsgDoitEtreConnecte, <<>>)
       /\ UNCHANGED fichiers
  ELSE \E e_prix \in EntreesPrix, e_ville \in EntreesTexte,
          e_type \in EntreesType, e_chambres \in EntreesChambres,
          e_sdb \in EntreesSdb :
         LET r == ajouter_propriete(fichier_proprietes, e_prix, e_ville,
                                    e_type, e_chambres, e_sdb)
         IN  /\ Len(r.proprietes.contenu) <= MaxProprietes
             /\ fichier_proprietes' = r.proprietes
             /\ appel' = Appel("ajouter_propriete",
                               SubSeq(<<e_prix, e_ville, e_type, e_chambres,
                                        e_sdb>>, 1, r.lus))
             /\ retour' = IF r.exception = "" THEN Retour(None)
                          ELSE Leve(r.exception)
             /\ sortie' = Sortie(r.message, <<>>)
             /\ UNCHANGED <<fichier_utilisateurs, fichier_session>>

CreerCompte == ExecCreerCompte /\ HorsMain

SeConnecter == ExecSeConnecter /\ HorsMain

SeDeconnecter == ExecSeDeconnecter /\ HorsMain

RecupererUtilisateurCourant == ExecRecupererUtilisateurCourant /\ HorsMain

UtilisateurEstConnecte == ExecUtilisateurEstConnecte /\ HorsMain

AjouterPropriete == ExecAjouterPropriete /\ HorsMain

Next ==
  \/ CreerCompte
  \/ SeConnecter
  \/ SeDeconnecter
  \/ RecupererUtilisateurCourant
  \/ UtilisateurEstConnecte
  \/ AjouterPropriete

Spec == Init /\ [][Next]_vars

----------------------------------------------------------------------------
(* Listing and filtering over a properties file that holds any sequence *)
(* of at most MaxProprietes records.                                    *)

Villes == {strip(e) : e \in EntreesTexte} \ {<<>>}

Proprietes ==
  [prix : 0..MaxPrix, ville : Villes, type : {<<"a">>},
   chambres : 0..MaxChambres, salles_de_bains : {1}]

SuitesDeProprietes == UNION {[1..k -> Proprietes] : k \in 0..MaxProprietes}

InitFiltre ==
  /\ InitCommun
  /\ fichier_proprietes \in
       {FichierAbsent(<<>>)} \cup {FichierAvec(p) : p \in SuitesDeProprietes}

ExecListerProprietes ==
  LET r == lister_proprietes(fichier_proprietes)
  IN  /\ appel' = Appel("lister_proprietes", <<>>)
      /\ retour' = Retour(None)
      /\ sortie' = Sortie(r.message, r.lignes)
      /\ UNCHANGED fichiers

ExecFiltrerProprietes(EVille, EPrixMin, EPrixMax, EChambres) ==
  \E e_ville \in EVille, e_prix_min \in EPrixMin,
     e_prix_max \in EPrixMax, e_chambres \in EChambres :
    LET r == filtrer_proprietes(fichier_proprietes, e_ville, e_prix_min,
                                e_prix_max, e_chambres)
    IN  /\ appel' = Appel("filtrer_proprietes",
                          <<e_ville, e_prix_min, e_prix_max, e_chambres>>)
        /\ retour' = IF r.exception = "" THEN Retour(None)
                     ELSE Leve(r.exception)
        /\ sortie' = Sortie("", r.lignes)
        /\ UNCHANGED fichiers

ListerProprietes == ExecListerProprietes /\ HorsMain

FiltrerProprietes ==
  /\ ExecFiltrerProprietes(EntreesTexte, EntreesPrix, EntreesPrix,
                           EntreesChambres)
  /\ HorsMain

(* lister_proprietes and filtrer_proprietes leave the three files as they *)
(* are, so a later call meets the file of the first call: SpecFiltre      *)
(* follows one call from every stored sequence.                           *)
PremierAppel == appel.op = ""

ListerUneFois == PremierAppel /\ ListerProprietes

FiltrerUneFois == PremierAppel /\ FiltrerProprietes

NextFiltre ==
  \/ ListerUneFois
  \/ FiltrerUneFois

SpecFiltre == InitFiltre /\ [][NextFiltre]_vars

----------------------------------------------------------------------------
(* ift1004_duproprio.py: main(). One action is one turn of the while loop: *)
(* the choice typed and the whole call it leads to. An exception that the  *)
(* called function raises is caught nowhere and ends main().               *)

MsgBienvenue == "Bienvenue sur IFT-1004 DuProprio !"
MsgAuRevoir ==
  "IFT-1004 DuProprio: Trouvez votre chez-vous, sans les agents embetants !"
MsgOptionInvalide == "Option invalide."

(* Variant of option_choisie: the session is not looked at *)
option_choisie_sans_session(choix, connecte) ==
  IF choix = <<"1">> THEN "lister_proprietes"
  ELSE IF choix = <<"2">> THEN "filtrer_proprietes"
  ELSE IF choix = <<"3">> THEN "creer_compte"
  ELSE IF choix = <<"4">> THEN "se_connecter"
  ELSE IF choix = <<"5">> THEN "quitter"
  ELSE "invalide"

(* The if/elif chain of lines 59-77: what a choice leads to, connecte *)
(* being the value of utilisateur_est_connecte()                      *)
option_choisie(choix, connecte) ==
  IF choix = <<"1">> THEN "lister_proprietes"
  ELSE IF choix = <<"2">> THEN "filtrer_proprietes"
  ELSE IF choix = <<"3">> /\ connecte THEN "ajouter_propriete"
  ELSE IF choix = <<"3">> THEN "creer_compte"
  ELSE IF choix = <<"4">> /\ connecte THEN "se_deconnecter"
  ELSE IF choix = <<"4">> THEN "se_connecter"
  ELSE IF choix = <<"5">> THEN "quitter"
  ELSE "invalide"

(* Texts typed at the prompts of filtrer_proprietes inside the loop *)
EntreesMenuVille == {<<>>}
EntreesMenuPrixMin == {<<>>, <<"x">>, <<"1">>}
EntreesMenuPrixMax == {<<>>, <<"x">>}
EntreesMenuChambres == {<<>>, <<"x">>}

(* Choices that are none of "1" .. "5"; the choice is compared as typed *)
ChoixInvalides == {<<>>, <<"6">>, <<" ", "1">>}

ExecQuitter ==
  /\ appel' = Appel("", <<>>)
  /\ retour' = Retour(None)
  /\ sortie' = Sortie(MsgAuRevoir, <<>>)
  /\ UNCHANGED fichiers

ExecOptionInvalide ==
  /\ appel' = Appel("", <<>>)
  /\ retour' = Retour(None)
  /\ sortie' = Sortie(MsgOptionInvalide, <<>>)
  /\ UNCHANGED fichiers

Iteration(choix) ==
  /\ main.etat = "boucle"
  /\ LET op == option_choisie(choix,
                              utilisateur_est_connecte(fichier_session))
     IN  IF op = "lister_proprietes" THEN ExecListerProprietes
         ELSE IF op = "filtrer_proprietes"
           THEN ExecFiltrerProprietes(EntreesMenuVille, EntreesMenuPrixMin,
                                      EntreesMenuPrixMax, EntreesMenuChambres)
         ELSE IF op = "ajouter_propriete" THEN ExecAjouterPropriete
         ELSE IF op = "creer_compte" THEN ExecCreerCompte
         ELSE IF op = "se_deconnecter" THEN ExecSeDeconnecter
         ELSE IF op = "se_connecter" THEN ExecSeConnecter
         ELSE IF op = "quitter" THEN ExecQuitter
         ELSE ExecOptionInvalide
  /\ main' = [etat |-> IF retour'.exception # "" THEN "exception"
                       ELSE IF choix = <<"5">> THEN "termine"
                       ELSE "boucle",
              choix |-> choix]
  /\ UNCHANGED processus

Choix1 == Iteration(<<"1">>)
Choix2 == Iteration(<<"2">>)
Choix3 == Iteration(<<"3">>)
Choix4 == Iteration(<<"4">>)
Choix5 == Iteration(<<"5">>)
ChoixInvalide == \E choix \in ChoixInvalides : Iteration(choix)

(* The program is started again after main() has ended: the files are *)
(* what the last run left.                                            *)
Demarrer ==
  /\ main.etat \in {"termine", "exception"}
  /\ main' = [etat |-> "boucle", choix |-> <<>>]
  /\ appel' = Appel("", <<>>)
  /\ retour' = Retour(None)
  /\ sortie' = Sortie(MsgBienvenue, <<>>)
  /\ UNCHANGED <<fichiers, processus>>

InitMenu ==
  /\ main = [etat |-> "boucle", choix |-> <<>>]
  /\ processus = AucunProcessus
  /\ fichier_utilisateurs = FichierAbsent(DictVide)
  /\ fichier_session = FichierAbsent(<<>>)
  /\ fichier_proprietes \in {FichierAbsent(<<>>), FichierAvec(<<>>)}
  /\ appel = Appel("", <<>>)
  /\ retour = Retour(None)
  /\ sortie = Sortie(MsgBienvenue, <<>>)

NextMenu ==
  \/ Choix1
  \/ Choix2
  \/ Choix3
  \/ Choix4
  \/ Choix5
  \/ ChoixInvalide
  \/ Demarrer

SpecMenu == InitMenu /\ [][NextMenu]_vars

----------------------------------------------------------------------------
(* The functions of gestionnaire_donnees called directly, as the other    *)
(* modules call them, together with the operations on properties that     *)
(* read or write the property file.  The saved values are drawn from the  *)
(* mappings and records the callers can build.                            *)

Condenses == {hacher_mot_de_passe(strip(e)) : e \in EntreesMdp}

Dictionnaires ==
  UNION {[noms -> Condenses] :
           noms \in {n \in SUBSET {strip(e) : e \in EntreesTexte} :
                       Cardinality(n) <= MaxUtilisateurs}}

ProprietesSauvegardees ==
  {p \in Proprietes : p.ville = <<"a">> /\ p.chambres = 0}

InitDonnees ==
  /\ InitCommun
  /\ fichier_proprietes = FichierAbsent(<<>>)

(* Variant of ExecChargerUtilisateurs: FileNotFoundError is not caught *)
ExecChargerUtilisateursSansExcept ==
  /\ appel' = Appel("charger_utilisateurs", <<>>)
  /\ retour' = IF fichier_utilisateurs.existe
               THEN Retour(Some(charger_utilisateurs(fichier_utilisateurs)))
               ELSE Leve("FileNotFoundError")
  /\ sortie' = Sortie("", <<>>)
  /\ UNCHANGED fichiers

ExecChargerUtilisateurs ==
  /\ appel' = Appel("charger_utilisateurs", <<>>)
  /\ retour' = Retour(Some(charger_utilisateurs(fichier_utilisateurs)))
  /\ sortie' = Sortie("", <<>>)
  /\ UNCHANGED fichiers

ExecSauvegarderUtilisateurs ==
  \E utilisateurs \in Dictionnaires :
    /\ fichier_utilisateurs' =
         sauvegarder_utilisateurs(fichier_utilisateurs, utilisateurs)
    /\ appel' = Appel("sauvegarder_utilisateurs", <<utilisateurs>>)
    /\ retour' = Retour(None)
    /\ sortie' = Sortie("", <<>>)
    /\ UNCHANGED <<fichier_proprietes, fichier_session>>

ExecChargerProprietes ==
  /\ appel' = Appel("charger_proprietes", <<>>)
  /\ retour' = Retour(Some(charger_proprietes(fichier_proprietes)))
  /\ sortie' = Sortie("", <<>>)
  /\ UNCHANGED fichiers

ExecSauvegarderPropriete ==
  \E nouvelle_propriete \in ProprietesSauvegardees :
    /\ Len(charger_proprietes(fichier_proprietes)) < MaxProprietes
    /\ fichier_proprietes' =
         sauvegarder_propriete(fichier_proprietes, nouvelle_propriete)
    /\ appel' = Appel("sauvegarder_propriete", <<nouvelle_propriete>>)
    /\ retour' = Retour(None)
    /\ sortie' = Sortie("", <<>>)
    /\ UNCHANGED <<fichier_utilisateurs, fichier_session>>

ChargerUtilisateurs == ExecChargerUtilisateurs /\ HorsMain

SauvegarderUtilisateurs == ExecSauvegarderUtilisateurs /\ HorsMain

ChargerProprietes == ExecChargerProprietes /\ HorsMain

SauvegarderPropriete == ExecSauvegarderPropriete /\ HorsMain

FiltrerProprietesDonnees ==
  /\ ExecFiltrerProprietes(EntreesMenuVille, EntreesMenuPrixMin,
                           EntreesMenuPrixMax, EntreesMenuChambres)
  /\ HorsMain

NextDonnees ==
  \/ ChargerUtilisateurs
  \/ SauvegarderUtilisateurs
  \/ ChargerProprietes
  \/ SauvegarderPropriete
  \/ RecupererUtilisateurCourant
  \/ ListerProprietes
  \/ FiltrerProprietesDonnees
  \/ AjouterPropriete

SpecDonnees == InitDonnees /\ [][NextDonnees]_vars

----------------------------------------------------------------------------
(* Processes that each run sauvegarder_propriete once, side by side on   *)
(* the same property file.  A process reads the list (lines 62-66), then *)
(* writes it back with its record appended (lines 68-70); nothing ties   *)
(* the two steps together, so steps of other processes may fall between. *)

Processus == 1..NbProcessus

AuDebut(nouvelle_propriete) ==
  [pc |-> "debut", proprietes |-> <<>>,
   nouvelle_propriete |-> nouvelle_propriete]

InitConcurrent ==
  /\ InitCommunSansProcessus
  /\ fichier_proprietes \in
       {FichierAbsent(<<>>)}
         \cup {FichierAvec(proprietes) :
                 proprietes \in UNION {[1..k -> ProprietesSauvegardees] :
                                         k \in 0..MaxProprietes}}
  /\ processus \in [Processus -> {AuDebut(nouvelle_propriete) :
                                    nouvelle_propriete \in ProprietesSauvegardees}]

Lire(p) ==
  /\ processus[p].pc = "debut"
  /\ processus' =
       [processus EXCEPT
          ![p].pc = "lu",
          ![p].proprietes = sauvegarder_propriete_lire(fichier_proprietes)]
  /\ UNCHANGED <<fichiers, appel, retour, sortie, main>>

Ecrire(p) ==
  /\ processus[p].pc = "lu"
  /\ fichier_proprietes' =
       sauvegarder_propriete_ecrire(fichier_proprietes,
                                    processus[p].proprietes,
                                    processus[p].nouvelle_propriete)
  /\ processus' = [processus EXCEPT ![p].pc = "fini"]
  /\ UNCHANGED <<fichier_utilisateurs, fichier_session, appel, retour,
                 sortie, main>>

NextConcurrent ==
  \/ \E p \in Processus : Lire(p)
  \/ \E p \in Processus : Ecrire(p)

SpecConcurrent == InitConcurrent /\ [][NextConcurrent]_vars

----------------------------------------------------------------------------
(* hacher_mot_de_passe called once on a text: the texts of 0 to        *)
(* MaxHachage letters, which take one, two or three blocks of SHA-256, *)
(* and the passwords of tests_hacher_mot_de_passe.                     *)

EntreesHachage == {Rep("a", k) : k \in 0..MaxHachage} \cup Echantillons

ExecHacherMotDePasse ==
  \E mot_de_passe \in EntreesHachage :
    /\ appel' = Appel("hacher_mot_de_passe", <<mot_de_passe>>)
    /\ retour' = Retour(Some(hacher_mot_de_passe(mot_de_passe)))
    /\ sortie' = Sortie("", <<>>)
    /\ UNCHANGED fichiers

HacherUneFois == PremierAppel /\ ExecHacherMotDePasse /\ HorsMain

InitHachage ==
  /\ InitCommun
  /\ fichier_proprietes = FichierAbsent(<<>>)

NextHachage == HacherUneFois

SpecHachage == InitHachage /\ [][NextHachage]_vars

----------------------------------------------------------------------------
(* The six operations of the menu called in any order, whatever the *)
(* session: the calls of Spec, and the listing and the filter.      *)

NextOperations ==
  \/ CreerCompte
  \/ SeConnecter
  \/ SeDeconnecter
  \/ ListerProprietes
  \/ FiltrerProprietesDonnees
  \/ AjouterPropriete

SpecOperations == Init /\ [][NextOperations]_vars

----------------------------------------------------------------------------
(* The session states of the account state machine, read off the session *)
(* file: anonymous when the file is missing or empty, authenticated(u)   *)
(* when it holds the non-empty text u.                                   *)

SessionAnonyme(f_session) == ~f_session.existe \/ f_session.contenu = <<>>

SessionAuthentifiee(f_session, u) ==
  f_session.existe /\ u # <<>> /\ f_session.contenu = u

(* The username and password a call of creer_compte or se_connecter works *)
(* on: the texts typed, without surrounding blanks.                       *)
NomDe(a) == strip(a.entrees[1])
MdpDe(a) == strip(a.entrees[2])

IdentifiantsValides(f_utilisateurs, a) ==
  /\ NomDe(a) \in DOMAIN charger_utilisateurs(f_utilisateurs)
  /\ charger_utilisateurs(f_utilisateurs)[NomDe(a)]
       = hacher_mot_de_passe(MdpDe(a))

(* C1: login(u, p) started in the anonymous state, with the user store    *)
(* mapping u to hash(p), ends in authenticated(u): the session slot holds *)
(* u and utilisateur_est_connecte() is true; for every registrable        *)
(* username, the empty one included.                                      *)
C1_ConnexionAuthentifie ==
  [][(/\ appel'.op = "se_connecter"
      /\ SessionAnonyme(fichier_session)
      /\ IdentifiantsValides(fichier_utilisateurs, appel'))
     => (/\ fichier_session'.existe
         /\ fichier_session'.contenu = NomDe(appel')
         /\ ~SessionAnonyme(fichier_session')
         /\ utilisateur_est_connecte(fichier_session'))]_vars

(* C2: ajouter_propriete called while a session is authenticated appends  *)
(* the record typed in: the property store afterwards is the previous     *)
(* sequence followed by that record.                                      *)
C2_AjoutAuthentifie ==
  [][(/\ appel'.op = "ajouter_propriete"
      /\ ~SessionAnonyme(fichier_session)
      /\ retour'.exception = "")
     => (/\ Len(appel'.entrees) = 5
         /\ fichier_proprietes'.existe
         /\ fichier_proprietes'.contenu
              = Append(charger_proprietes(fichier_proprietes),
                       [prix |-> valeur_decimale(strip(appel'.entrees[1])),
                        ville |-> strip(appel'.entrees[2]),
                        type |-> strip(appel'.entrees[3]),
                        chambres |-> valeur_decimale(strip(appel'.entrees[4])),
                        salles_de_bains |->
                          valeur_decimale(strip(appel'.entrees[5]))]))]_vars

(* C3: recuperer_utilisateur_courant() returns the username held in the   *)
(* session slot when the session is authenticated, and None when it is    *)
(* anonymous (slot empty or session file missing).                        *)
C3_UtilisateurCourant ==
  appel.op = "recuperer_utilisateur_courant"
    => retour.valeur = IF SessionAnonyme(fichier_session) THEN None
                       ELSE Some(fichier_session.contenu)

(* C4: login with an unknown username, or with a password whose hash is   *)
(* not the stored digest, fails: from the anonymous state the session     *)
(* stays anonymous and the user store is unchanged.                       *)
C4_ConnexionRefusee ==
  [][(/\ appel'.op = "se_connecter"
      /\ SessionAnonyme(fichier_session)
      /\ ~IdentifiantsValides(fichier_utilisateurs, appel'))
     => (/\ sortie'.message = MsgIncorrect
         /\ SessionAnonyme(fichier_session')
         /\ fichier_session' = fichier_session
         /\ fichier_utilisateurs' = fichier_utilisateurs)]_vars

C4_Temoin ==
  /\ appel.op = "se_connecter"
  /\ sortie.message = MsgIncorrect
  /\ SessionAnonyme(fichier_session)
  /\ NomDe(appel) \in DOMAIN charger_utilisateurs(fichier_utilisateurs)
  /\ ~IdentifiantsValides(fichier_utilisateurs, appel)

(* C5: ajouter_propriete called with no active session (slot empty or     *)
(* session file missing) prints the must-be-logged-in message and leaves  *)
(* the property store unchanged.                                          *)
C5_AjoutRefuse ==
  [][(/\ appel'.op = "ajouter_propriete"
      /\ SessionAnonyme(fichier_session))
     => (/\ sortie'.message = MsgDoitEtreConnecte
         /\ fichier_proprietes' = fichier_proprietes)]_vars

C5_Temoin ==
  /\ appel.op = "ajouter_propriete"
  /\ sortie.message = MsgDoitEtreConnecte
  /\ fichier_session = FichierAvec(<<>>)
  /\ DOMAIN charger_utilisateurs(fichier_utilisateurs) # {}

(* C6: utilisateur_est_connecte() is true exactly when the session is     *)
(* authenticated: true for a non-empty slot, false for an empty slot or a *)
(* missing session file.                                                  *)
C6_EstConnecte ==
  appel.op = "utilisateur_est_connecte"
    => retour.valeur = Some(~SessionAnonyme(fichier_session))

C6_Temoin ==
  /\ appel.op = "utilisateur_est_connecte"
  /\ retour.valeur = Some(TRUE)
  /\ \E u \in DOMAIN charger_utilisateurs(fichier_utilisateurs) :
       SessionAuthentifiee(fichier_session, u)

(* C7: creer_compte with a username already in the user mapping prints   *)
(* the name-taken message and leaves the whole user mapping, the digest   *)
(* of that username included, as it was.                                  *)
C7_CompteExistant ==
  [][(/\ appel'.op = "creer_compte"
      /\ NomDe(appel') \in DOMAIN charger_utilisateurs(fichier_utilisateurs))
     => (/\ sortie'.message = MsgDejaPris
         /\ fichier_utilisateurs' = fichier_utilisateurs)]_vars

C7_Temoin ==
  /\ appel.op = "creer_compte"
  /\ sortie.message = MsgDejaPris
  /\ NomDe(appel) \in DOMAIN charger_utilisateurs(fichier_utilisateurs)

(* C8: creer_compte with a username not yet in the user mapping leaves    *)
(* the mapping extended with that username mapped to the hash of the      *)
(* password, every other entry unchanged, and the session unchanged.      *)
C8_NouveauCompte ==
  [][(/\ appel'.op = "creer_compte"
      /\ NomDe(appel') \notin DOMAIN charger_utilisateurs(fichier_utilisateurs))
     => LET avant == charger_utilisateurs(fichier_utilisateurs)
            apres == charger_utilisateurs(fichier_utilisateurs')
        IN  /\ Len(appel'.entrees) = 2
            /\ sortie'.message = MsgCompteCree
            /\ DOMAIN apres = (DOMAIN avant) \cup {NomDe(appel')}
            /\ apres[NomDe(appel')] = hacher_mot_de_passe(MdpDe(appel'))
            /\ \A u \in DOMAIN avant : apres[u] = avant[u]
            /\ fichier_session' = fichier_session]_vars

C8_Temoin ==
  /\ appel.op = "creer_compte"
  /\ sortie.message = MsgCompteCree
  /\ Cardinality(DOMAIN charger_utilisateurs(fichier_utilisateurs)) = 2
  /\ \E u \in DOMAIN charger_utilisateurs(fichier_utilisateurs) :
       u # NomDe(appel) /\ SessionAuthentifiee(fichier_session, u)

(* C9: se_deconnecter leads from any session state to the anonymous       *)
(* state, and a second se_deconnecter right after the first leaves the    *)
(* state of the first.                                                    *)
C9_Deconnexion ==
  [][appel'.op = "se_deconnecter"
     => (/\ SessionAnonyme(fichier_session')
         /\ ~utilisateur_est_connecte(fichier_session')
         /\ UNCHANGED <<fichier_utilisateurs, fichier_proprietes>>
         /\ appel.op = "se_deconnecter" => fichier_session' = fichier_session)
    ]_vars

C9_Temoin ==
  /\ appel.op = "se_deconnecter"
  /\ fichier_session = FichierAvec(<<>>)
  /\ DOMAIN charger_utilisateurs(fichier_utilisateurs) # {}

----------------------------------------------------------------------------
(* The criteria of a call of filtrer_proprietes, as typed: the city, and  *)
(* the three numbers (entered as digits).                                 *)
VilleDe(a) == strip(a.entrees[1])
PrixMinDe(a) == strip(a.entrees[2])
PrixMaxDe(a) == strip(a.entrees[3])
ChambresDe(a) == strip(a.entrees[4])

(* A numeric criterion is entered when its text is not empty; it is      *)
(* non-zero when, besides, its value is not 0.                           *)
Entre(t) == t # <<>>
NonNul(t) == t # <<>> /\ valeur_decimale(t) # 0

(* The properties of a sequence that satisfy a predicate, in order *)
Retenues(proprietes, Satisfait(_)) == SelectSeq(proprietes, Satisfait)

(* C10 as stated: for every stored sequence and every combination of     *)
(* entered criteria, filtrer_proprietes prints exactly the properties    *)
(* that satisfy every entered criterion (city equal, price >= minimum,   *)
(* price <= maximum, bedrooms >= minimum), in storage order.             *)
C10_FiltreCriteresEntres ==
  (appel.op = "filtrer_proprietes" /\ retour.exception = "")
    => LET Satisfait(p) ==
             /\ Entre(VilleDe(appel)) => p.ville = VilleDe(appel)
             /\ Entre(PrixMinDe(appel))
                  => p.prix >= valeur_decimale(PrixMinDe(appel))
             /\ Entre(PrixMaxDe(appel))
                  => p.prix <= valeur_decimale(PrixMaxDe(appel))
             /\ Entre(ChambresDe(appel))
                  => p.chambres >= valeur_decimale(ChambresDe(appel))
       IN  sortie.lignes
             = Retenues(charger_proprietes(fichier_proprietes), Satisfait)

(* C10 amended: the same, a numeric criterion counting as supplied only  *)
(* when the number entered is not zero; a criterion left empty or        *)
(* entered as 0 imposes no constraint.                                   *)
C10_FiltreCriteresNonNuls ==
  (appel.op = "filtrer_proprietes" /\ retour.exception = "")
    => LET Satisfait(p) ==
             /\ Entre(VilleDe(appel)) => p.ville = VilleDe(appel)
             /\ NonNul(PrixMinDe(appel))
                  => p.prix >= valeur_decimale(PrixMinDe(appel))
             /\ NonNul(PrixMaxDe(appel))
                  => p.prix <= valeur_decimale(PrixMaxDe(appel))
             /\ NonNul(ChambresDe(appel))
                  => p.chambres >= valeur_decimale(ChambresDe(appel))
       IN  sortie.lignes
             = Retenues(charger_proprietes(fichier_proprietes), Satisfait)

(* Two stored properties, all four criteria entered and non-zero, and    *)
(* exactly the second property printed.                                  *)
C10_Temoin ==
  /\ appel.op = "filtrer_proprietes"
  /\ retour.exception = ""
  /\ Entre(VilleDe(appel))
  /\ NonNul(PrixMinDe(appel))
  /\ NonNul(PrixMaxDe(appel))
  /\ NonNul(ChambresDe(appel))
  /\ Len(charger_proprietes(fichier_proprietes)) = 2
  /\ sortie.lignes = <<charger_proprietes(fichier_proprietes)[2]>>
  /\ charger_proprietes(fichier_proprietes)[1]
       # charger_proprietes(fichier_proprietes)[2]

(* The row lister_proprietes prints for a property *)
LigneDe(p) ==
  <<p.ville, p.type, p.chambres, p.salles_de_bains, formater_argent(p.prix)>>

(* C11: filtrer_proprietes with the four prompts left empty prints every  *)
(* stored property, in the order in which lister_proprietes lists them,   *)
(* which is the storage order.                                            *)
C11_FiltreSansCritere ==
  (/\ appel.op = "filtrer_proprietes"
   /\ \A i \in 1..4 : strip(appel.entrees[i]) = <<>>)
    => /\ retour.exception = ""
       /\ sortie.lignes = charger_proprietes(fichier_proprietes)
       /\ Len(lister_proprietes(fichier_proprietes).lignes)
            = Len(sortie.lignes)
       /\ \A i \in 1..Len(sortie.lignes) :
            lister_proprietes(fichier_proprietes).lignes[i]
              = LigneDe(sortie.lignes[i])

C11_Temoin ==
  /\ appel.op = "filtrer_proprietes"
  /\ \A i \in 1..4 : strip(appel.entrees[i]) = <<>>
  /\ Len(sortie.lignes) = 2
  /\ sortie.lignes[1].prix # sortie.lignes[2].prix

----------------------------------------------------------------------------
(* C12: every error is recovered inside the loop of main(): main() ends   *)
(* only when option 5 is chosen.                                          *)
C12_FinParOption5 ==
  main.etat # "boucle" => (main.etat = "termine" /\ main.choix = <<"5">>)

(* C13: in every turn of the loop, choice 3 runs creer_compte when no     *)
(* session is active and ajouter_propriete when one is, choice 4 runs     *)
(* se_connecter when no session is active and se_deconnecter when one is; *)
(* so se_connecter and creer_compte never run with a session active,      *)
(* se_deconnecter and ajouter_propriete never without.                    *)
C13_AiguillageMenu ==
  [][/\ main'.choix = <<"3">>
         => appel'.op = IF SessionAnonyme(fichier_session)
                        THEN "creer_compte" ELSE "ajouter_propriete"
     /\ main'.choix = <<"4">>
         => appel'.op = IF SessionAnonyme(fichier_session)
                        THEN "se_connecter" ELSE "se_deconnecter"
     /\ appel'.op \in {"se_connecter", "creer_compte"}
         => SessionAnonyme(fichier_session)
     /\ appel'.op \in {"se_deconnecter", "ajouter_propriete"}
         => ~SessionAnonyme(fichier_session)]_vars

C13_Temoin ==
  /\ main.etat = "boucle"
  /\ main.choix = <<"3">>
  /\ appel.op = "ajouter_propriete"
  /\ ~SessionAnonyme(fichier_session)

(* C17: the session slot changes only through a successful login (set   *)
(* to the username) and through logout (emptied); listing, filtering,    *)
(* registering, adding a property, a refused login, an invalid choice,   *)
(* option 5 and starting the program again leave it as it is.            *)
C17_SessionInchangee ==
  [][fichier_session' # fichier_session
     => \/ /\ appel'.op = "se_connecter"
           /\ sortie'.message = MsgConnexionReussie
           /\ fichier_session'.existe
           /\ fichier_session'.contenu = NomDe(appel')
        \/ /\ appel'.op = "se_deconnecter"
           /\ fichier_session'.existe
           /\ fichier_session'.contenu = <<>>]_vars

(* The program was ended, started again, and the session is still active *)
C17_Temoin ==
  /\ main = [etat |-> "boucle", choix |-> <<>>]
  /\ sortie.message = MsgBienvenue
  /\ \E u \in DOMAIN charger_utilisateurs(fichier_utilisateurs) :
       SessionAuthentifiee(fichier_session, u)

(* C14: a load on a backing store that does not exist returns the empty   *)
(* default instead of failing: the empty mapping for the users, the empty *)
(* sequence for the properties, None for the session.                     *)
C14_ChargementSansFichier ==
  /\ (appel.op = "charger_utilisateurs" /\ ~fichier_utilisateurs.existe)
       => retour = Retour(Some(DictVide))
  /\ (appel.op = "charger_proprietes" /\ ~fichier_proprietes.existe)
       => retour = Retour(Some(<<>>))
  /\ (appel.op = "recuperer_utilisateur_courant" /\ ~fichier_session.existe)
       => retour = Retour(None)

C14_Temoin ==
  /\ appel.op = "charger_utilisateurs"
  /\ ~fichier_utilisateurs.existe
  /\ retour.exception = ""
  /\ retour.valeur = Some(DictVide)

(* C15: saving a user mapping m and then loading returns m, whatever the  *)
(* file held before the save.                                             *)
C15_SauvegardePuisChargement ==
  [][appel'.op = "sauvegarder_utilisateurs"
       => charger_utilisateurs(fichier_utilisateurs') = appel'.entrees[1]]_vars

C15_Temoin ==
  /\ appel.op = "sauvegarder_utilisateurs"
  /\ Cardinality(DOMAIN appel.entrees[1]) = MaxUtilisateurs
  /\ charger_utilisateurs(fichier_utilisateurs) = appel.entrees[1]
  /\ Len(fichier_utilisateurs.contenu) = MaxUtilisateurs

(* C18: in every step the new property sequence equals the old one or is  *)
(* the old one followed by exactly one record.                            *)
C18_AjoutEnFin ==
  [][LET avant == charger_proprietes(fichier_proprietes)
         apres == charger_proprietes(fichier_proprietes')
     IN  \/ apres = avant
         \/ /\ Len(apres) = Len(avant) + 1
            /\ SubSeq(apres, 1, Len(avant)) = avant]_vars

C18_Temoin ==
  /\ appel.op = "sauvegarder_propriete"
  /\ Len(charger_proprietes(fichier_proprietes)) = 2
  /\ charger_proprietes(fichier_proprietes)[2] = appel.entrees[1]
  /\ charger_proprietes(fichier_proprietes)[1] # appel.entrees[1]

(* C19: a username once present in the user mapping stays present with   *)
(* the same digest in every later state: no step removes a user or       *)
(* overwrites the digest of an existing user.                            *)
C19_UtilisateurConserve ==
  [][\A nom \in DOMAIN charger_utilisateurs(fichier_utilisateurs) :
       /\ nom \in DOMAIN charger_utilisateurs(fichier_utilisateurs')
       /\ charger_utilisateurs(fichier_utilisateurs')[nom]
            = charger_utilisateurs(fichier_utilisateurs)[nom]]_vars

C19_Temoin ==
  /\ appel.op = "creer_compte"
  /\ sortie.message = MsgCompteCree
  /\ \E nom \in DOMAIN charger_utilisateurs(fichier_utilisateurs) :
       /\ nom # NomDe(appel)
       /\ charger_utilisateurs(fichier_utilisateurs)[nom]
            # hacher_mot_de_passe(MdpDe(appel))

(* C20: sauvegarder_propriete is a load, an append and a save that other *)
(* processes may interleave; the last writer wins: once a process has    *)
(* finished, the file holds the list some finished process had read,     *)
(* followed by the record of that process, whatever was written between. *)
C20_DernierEcrivain ==
  (\E p \in Processus : processus[p].pc = "fini")
    => \E p \in Processus :
         /\ processus[p].pc = "fini"
         /\ fichier_proprietes
              = FichierAvec(Append(processus[p].proprietes,
                                   processus[p].nouvelle_propriete))

(* Both appends completed and the file holds one of the two records only *)
C20_MiseAJourPerdue ==
  /\ \A p \in Processus : processus[p].pc = "fini"
  /\ processus[1].nouvelle_propriete # processus[2].nouvelle_propriete
  /\ processus[1].proprietes = processus[2].proprietes
  /\ \A i \in DOMAIN processus[1].proprietes :
       processus[1].proprietes[i] \notin
         {processus[p].nouvelle_propriete : p \in Processus}
  /\ fichier_proprietes.contenu
       = Append(processus[2].proprietes, processus[2].nouvelle_propriete)
  /\ \A i \in DOMAIN fichier_proprietes.contenu :
       fichier_proprietes.contenu[i] # processus[1].nouvelle_propriete

(* C16: the digest of hacher_mot_de_passe is the same at a second call   *)
(* on the same text, has exactly 64 characters, all hexadecimal digits,  *)
(* for every text including the empty one and the one of 1000            *)
(* characters, and differs from the digest of every other tested text.   *)
C16_Condense ==
  appel.op = "hacher_mot_de_passe"
    => /\ hacher_mot_de_passe(appel.entrees[1]) = retour.valeur[1]
       /\ Len(retour.valeur[1]) = 64
       /\ \A i \in DOMAIN retour.valeur[1] :
            retour.valeur[1][i] \in {hex(d) : d \in 0..15}
       /\ \A autre \in Echantillons :
            autre # appel.entrees[1]
              => hacher_mot_de_passe(autre) # retour.valeur[1]

C16_Temoin ==
  /\ appel.op = "hacher_mot_de_passe"
  /\ Len(appel.entrees[1]) = LongueurTresLong
  /\ Len(retour.valeur[1]) = 64

----------------------------------------------------------------------------
(* C21: a numeric criterion (minimum price, maximum price, minimum       *)
(* bedrooms) entered with the value zero is treated as not supplied:     *)
(* the lines printed are those of the same call with it left empty.      *)
C21_ZeroNonFourni ==
  (appel.op = "filtrer_proprietes" /\ retour.exception = "")
    => \A i \in 2..4 :
         LET critere == strip(appel.entrees[i])
             sans == [appel.entrees EXCEPT ![i] = <<>>]
         IN  (Entre(critere) /\ ~NonNul(critere))
               => sortie.lignes
                    = filtrer_proprietes(fichier_proprietes, sans[1], sans[2],
                                         sans[3], sans[4]).lignes

(* A maximum price of 0 entered, and a property of a higher price printed *)
C21_Temoin ==
  /\ appel.op = "filtrer_proprietes"
  /\ retour.exception = ""
  /\ Entre(PrixMaxDe(appel)) /\ ~NonNul(PrixMaxDe(appel))
  /\ Entre(ChambresDe(appel)) /\ ~NonNul(ChambresDe(appel))
  /\ NonNul(PrixMinDe(appel))
  /\ \E i \in DOMAIN sortie.lignes : sortie.lignes[i].prix > 0

----------------------------------------------------------------------------
(* C22: a failed login has the same outcome whether the username is      *)
(* unknown or known with another password: the user file and the session *)
(* file are left as they were, and the message and the session file are  *)
(* those of the same login run on a user file that differs only in       *)
(* whether the username is registered: the username taken out when it   *)
(* is a key, put in with another digest than that of the password when  *)
(* it is not.                                                            *)
C22_EchecIndiscernable ==
  [][(appel'.op = "se_connecter" /\ sortie'.message # MsgConnexionReussie)
       => LET utilisateurs == charger_utilisateurs(fichier_utilisateurs)
              nom == NomDe(appel')
              autres ==
                IF nom \in DOMAIN utilisateurs
                THEN {sauvegarder_utilisateurs(fichier_utilisateurs,
                        [k \in (DOMAIN utilisateurs) \ {nom}
                           |-> utilisateurs[k]])}
                ELSE {sauvegarder_utilisateurs(fichier_utilisateurs,
                        setitem(utilisateurs, nom, condense)) :
                        condense \in Condenses
                                      \ {hacher_mot_de_passe(MdpDe(appel'))}}
          IN  /\ fichier_utilisateurs' = fichier_utilisateurs
              /\ fichier_session' = fichier_session
              /\ \A autre \in autres :
                   LET r == se_connecter(autre, fichier_session,
                                         appel'.entrees[1], appel'.entrees[2])
                   IN  /\ r.message = sortie'.message
                       /\ r.session = fichier_session']_vars

(* A login refused for a wrong password of a registered user, while the *)
(* session of another login is active.                                  *)
C22_Temoin ==
  /\ appel.op = "se_connecter"
  /\ sortie.message = MsgIncorrect
  /\ NomDe(appel) \in DOMAIN charger_utilisateurs(fichier_utilisateurs)
  /\ fichier_session.existe
  /\ fichier_session.contenu # <<>>
  /\ fichier_session.contenu # NomDe(appel)

----------------------------------------------------------------------------
(* C23: from missing user and session files, in every state reached by   *)
(* any sequence of register, login, logout, list, filter and add calls,  *)
(* a non-empty session slot names a username of the user mapping.        *)
C23_SessionNommeUtilisateur ==
  (fichier_session.existe /\ fichier_session.contenu # <<>>)
    => fichier_session.contenu
         \in DOMAIN charger_utilisateurs(fichier_utilisateurs)

(* A session is active, another account was created since, and the *)
(* filter was the last call.                                       *)
C23_Temoin ==
  /\ appel.op = "filtrer_proprietes"
  /\ fichier_session.existe
  /\ fichier_session.contenu # <<>>
  /\ Cardinality(DOMAIN charger_utilisateurs(fichier_utilisateurs)) = 2

====
